---- MODULE Spec2Model ----
(***************************************************************************)
(* A model of cpumemplt (src/main.py): the interactive two-process         *)
(* selector (process_selector), the configuration prompts (label_wrapper)  *)
(* and the bounded-window sampling loop of main.                           *)
(*                                                                         *)
(* Strings are sequences of character codes.  A Python float is a pair     *)
(* <<n, d>> standing for n/d; the pair <<0, 0>> is math.nan.  The selector *)
(* cursor idx is 0-based as in the source, so the entry under the cursor   *)
(* is view[idx + 1].                                                       *)
(***************************************************************************)
EXTENDS Integers, Sequences, FiniteSets, TLC

VARIABLES
    pc,           \* position of the single thread of control
    procs,        \* process_selector: the candidate list, fetched once
    filter_text,  \* process_selector: the filter string
    idx,          \* process_selector: the cursor
    view,         \* process_selector: the filtered view of this iteration
    selected,     \* process_selector: the chosen entries; main: its result
    ch,           \* process_selector: the key read last
    h,            \* process_selector: the terminal height of this iteration
    top, bottom,  \* process_selector: the rows of the view drawn, [top, bottom)
    listed,       \* history: how the one call of list_processes ended
    name1, name2, \* main: the two labels
    interval_s,   \* label_wrapper: the interval text, defaulted
    window_s,     \* label_wrapper: the window text, defaulted
    interval,     \* main: the sample interval, a float
    window,       \* main: the window size, an int
    start,        \* main: the wall clock at loop start
    clock,        \* the wall clock (time.time()), in whole time units
    now,          \* main: the timestamp of the current tick
    m1, m2,       \* main: the probe results of the current tick
    t, cpu1, cpu2, mem1, mem2,   \* main: the five deques
    ticks,        \* number of ticks begun (bounds the exploration)
    hnow,         \* history: the timestamp of every tick begun
    hps1, hps2    \* history: what each probe query that returned had to report

selvars == <<procs, filter_text, idx, view, selected, ch, h, top, bottom, listed>>
cfgvars == <<name1, name2, interval_s, window_s, interval, window>>
smpvars == <<start, clock, now, m1, m2, t, cpu1, cpu2, mem1, mem2, ticks, hnow, hps1, hps2>>
vars == <<pc, selvars, cfgvars, smpvars>>

----------------------------------------------------------------------------
(* Bounds of the exploration *)

MaxFilterLen == 2
MaxWindow == 2
MaxTicks == 3

----------------------------------------------------------------------------
(* Key codes and program constants *)

KEY_UP == 259
KEY_DOWN == 258
KEY_BACKSPACE == 263
KEY_DEL == 127
KEY_BS == 8
KEY_LF == 10
KEY_CR == 13
KEY_q == 113
KEY_Q == 81
PrintableMin == 32
PrintableMax == 126
ListLimit == 400
StartRow == 4
KbPerMb == 1024

None == <<>>
NaN == <<0, 0>>
NoKey == -1

Max(a, b) == IF a >= b THEN a ELSE b
Min(a, b) == IF a <= b THEN a ELSE b

----------------------------------------------------------------------------
(* Strings *)

\* str.lower() on the characters the model uses (ASCII)
Lower(c) == IF c >= 65 /\ c <= 90 THEN c + 32 ELSE c

LowerStr(s) == [i \in 1..Len(s) |-> Lower(s[i])]

\* Python's `sub in s` on strings
Contains(sub, s) ==
    \E i \in 1..(Len(s) - Len(sub) + 1) : SubSeq(s, i, i + Len(sub) - 1) = sub

\* str(n) for n >= 0: the decimal digits, most significant first
RECURSIVE Str(_)
Str(n) == IF n < 10 THEN <<48 + n>> ELSE Str(n \div 10) \o <<48 + (n % 10)>>

----------------------------------------------------------------------------
(* list_processes *)

\* The rows `ps` can print, already split into parts: a row of one part is
\* skipped, a row of two parts has no args column.
Row10 == <<10, <<97>>>>                                   \* 10 a
Row20 == <<20, <<66, 98>>, <<98, 98, 32, 88>>>>           \* 20 Bb "bb X"
Row30 == <<30, <<99, 99, 99>>, <<99, 99, 99, 32, 121>>>>  \* 30 ccc "ccc y"
Row40 == <<40, <<100>>, <<100>>>>                         \* 40 d d
RowBad == <<7>>                                           \* a row of one part

\* ps prints by ascending pid
PsOutputs ==
    { <<>>, <<Row10>>, <<RowBad, Row20>>, <<Row10, Row20>>, <<Row20, Row30>>,
      <<Row10, Row30>>, <<Row10, Row20, Row30>>, <<RowBad, Row10, Row20, Row30>>,
      <<Row10, Row20, Row30, Row40>> }

\* lines 25-31: the rows that parse, args defaulting to comm
RECURSIVE ParseRows(_)
ParseRows(rows) ==
    IF rows = <<>> THEN <<>>
    ELSE LET r == Head(rows)
             rest == ParseRows(Tail(rows))
         IN  IF Len(r) < 2 THEN rest
             ELSE <<<<r[1], r[2], IF Len(r) >= 3 THEN r[3] ELSE r[2]>>>> \o rest

\* insert p into a list sorted by descending pid, after its equals (stable)
RECURSIVE InsertDesc(_, _)
InsertDesc(p, s) ==
    IF s = <<>> THEN <<p>>
    ELSE IF Head(s)[1] >= p[1] THEN <<Head(s)>> \o InsertDesc(p, Tail(s))
    ELSE <<p>> \o s

\* procs.sort(key=lambda x: x[0], reverse=True)
RECURSIVE SortDesc(_)
SortDesc(s) == IF s = <<>> THEN <<>> ELSE InsertDesc(Head(s), SortDesc(Tail(s)))

list_processes(rows) ==
    LET sorted == SortDesc(ParseRows(rows))
    IN  SubSeq(sorted, 1, Min(Len(sorted), ListLimit))

----------------------------------------------------------------------------
(* process_selector *)

\* lines 77: the test of the comprehension, ft already lowered
MatchesFilter(ft, p) ==
    \/ Contains(ft, LowerStr(p[2]))
    \/ Contains(ft, LowerStr(p[3]))
    \/ Contains(ft, Str(p[1]))

\* lines 74-78
FilterViewNoLower(ps, f) ==
    LET Test(p) == MatchesFilter(f, p) IN SelectSeq(ps, Test)

FilterView(ps, f) ==
    LET ft == LowerStr(f)
        Test(p) == MatchesFilter(ft, p)
    IN  SelectSeq(ps, Test)

\* lines 79-82
ClampIdxNoFloor(i, v) == IF v = <<>> THEN 0 ELSE Min(i, Len(v) - 1)

ClampIdxSkipsEmpty(i, v) == IF v = <<>> THEN i ELSE Max(0, Min(i, Len(v) - 1))

ClampIdxWraps(i, v) == IF v = <<>> THEN 0 ELSE i % Len(v)

ClampIdx(i, v) == IF v = <<>> THEN 0 ELSE Max(0, Min(i, Len(v) - 1))

\* lines 107-125: the branch of the if/elif chain a key code takes
KeyBranchNarrowPrintable(k) ==
    IF k \in {KEY_q, KEY_Q} THEN "quit"
    ELSE IF k = KEY_UP THEN "up"
    ELSE IF k = KEY_DOWN THEN "down"
    ELSE IF k \in {KEY_BACKSPACE, KEY_DEL, KEY_BS} THEN "backspace"
    ELSE IF k \in {KEY_LF, KEY_CR} THEN "enter"
    ELSE IF PrintableMin < k /\ k < PrintableMax THEN "printable"
    ELSE "ignored"

KeyBranchQuitLowerOnly(k) ==
    IF k = KEY_q THEN "quit"
    ELSE IF k = KEY_UP THEN "up"
    ELSE IF k = KEY_DOWN THEN "down"
    ELSE IF k \in {KEY_BACKSPACE, KEY_DEL, KEY_BS} THEN "backspace"
    ELSE IF k \in {KEY_LF, KEY_CR} THEN "enter"
    ELSE IF PrintableMin <= k /\ k <= PrintableMax THEN "printable"
    ELSE "ignored"

KeyBranch(k) ==
    IF k \in {KEY_q, KEY_Q} THEN "quit"
    ELSE IF k = KEY_UP THEN "up"
    ELSE IF k = KEY_DOWN THEN "down"
    ELSE IF k \in {KEY_BACKSPACE, KEY_DEL, KEY_BS} THEN "backspace"
    ELSE IF k \in {KEY_LF, KEY_CR} THEN "enter"
    ELSE IF PrintableMin <= k /\ k <= PrintableMax THEN "printable"
    ELSE "ignored"

\* the key codes getch delivers in the model: every special key, the quit
\* keys, both ends of the printable range, letters of both cases, a digit,
\* and two codes no branch takes (ESC, KEY_LEFT)
Keys ==
    { KEY_UP, KEY_DOWN, KEY_BACKSPACE, KEY_DEL, KEY_BS, KEY_LF, KEY_CR,
      KEY_q, KEY_Q, PrintableMin, PrintableMax, 99, 66, 51, 27, 260 }

\* lines 119-120
SelectAlways(sel, chosen) == Append(sel, chosen)

Select(sel, chosen) ==
    IF \E i \in 1..Len(sel) : sel[i] = chosen THEN sel ELSE Append(sel, chosen)

\* line 121
SelectionCompleteAtOne(sel) == Len(sel) >= 1

SelectionComplete(sel) == Len(sel) = 2

\* filter_text[:-1]
DropFirst(s) == IF s = <<>> THEN <<>> ELSE Tail(s)

DropLast(s) == IF s = <<>> THEN <<>> ELSE SubSeq(s, 1, Len(s) - 1)

\* the terminal heights getmaxyx reports in the model: a viewport of one
\* row and one of three
Heights == {6, 8}

\* line 91
MaxRows(hh) == hh - StartRow - 1

\* line 92
FirstTop(i, mr) == Max(0, i - (mr \div 2))

\* line 93
Bottom(n, tp, mr) == Min(n, tp + mr)

\* line 94
FinalTopKeepsFirst(i, n, mr) == FirstTop(i, mr)

FinalTop(i, n, mr) == Max(0, Bottom(n, FirstTop(i, mr), mr) - mr)

\* lines 85 and 90-94: the rows drawn for view v and cursor i on a terminal
\* of height hh
Render(v, i, hh) ==
    /\ h' = hh
    /\ top' = FinalTop(i, Len(v), MaxRows(hh))
    /\ bottom' = Bottom(Len(v), FirstTop(i, MaxRows(hh)), MaxRows(hh))

\* lines 74-104: the top of the next iteration, run before the next getch
LoopTop(f, i) ==
    LET v == FilterView(procs, f)
        j == ClampIdx(i, v)
    IN  /\ filter_text' = f
        /\ view' = v
        /\ idx' = j
        /\ \E hh \in Heights : Render(v, j, hh)

\* line 68 and the first pass through lines 74-104
ListProcesses ==
    /\ pc = "start"
    /\ \E rows \in PsOutputs :
         LET ps == list_processes(rows)
             v == FilterView(ps, <<>>)
             j == ClampIdx(0, v)
         IN  /\ procs' = ps
             /\ filter_text' = <<>>
             /\ view' = v
             /\ idx' = j
             /\ \E hh \in Heights : Render(v, j, hh)
    /\ selected' = <<>>
    /\ listed' = "ok"
    /\ pc' = "getch"
    /\ UNCHANGED <<ch, cfgvars, smpvars>>

\* line 15: check_output raises, nothing catches it
ListProcessesFailsYieldsEmpty ==
    /\ pc = "start"
    /\ listed' = "failed"
    /\ pc' = "getch"
    /\ \E hh \in Heights : Render(<<>>, 0, hh)
    /\ UNCHANGED <<procs, filter_text, idx, view, selected, ch, cfgvars, smpvars>>

ListProcessesFails ==
    /\ pc = "start"
    /\ listed' = "failed"
    /\ pc' = "crashed"
    /\ UNCHANGED <<procs, filter_text, idx, view, selected, ch, h, top, bottom,
                   cfgvars, smpvars>>

\* lines 107-108
Quit(k) ==
    /\ pc = "getch"
    /\ KeyBranch(k) = "quit"
    /\ ch' = k
    /\ pc' = "exited"
    /\ UNCHANGED <<procs, filter_text, idx, view, selected, h, top, bottom, listed,
                   cfgvars, smpvars>>

\* lines 109-110
Up(k) ==
    /\ pc = "getch"
    /\ KeyBranch(k) = "up"
    /\ ch' = k
    /\ LoopTop(filter_text, idx - 1)
    /\ UNCHANGED <<pc, procs, selected, listed, cfgvars, smpvars>>

\* lines 111-112
Down(k) ==
    /\ pc = "getch"
    /\ KeyBranch(k) = "down"
    /\ ch' = k
    /\ LoopTop(filter_text, idx + 1)
    /\ UNCHANGED <<pc, procs, selected, listed, cfgvars, smpvars>>

\* lines 113-115
Backspace(k) ==
    /\ pc = "getch"
    /\ KeyBranch(k) = "backspace"
    /\ ch' = k
    /\ LoopTop(DropLast(filter_text), 0)
    /\ UNCHANGED <<pc, procs, selected, listed, cfgvars, smpvars>>

\* lines 116-122
Enter(k) ==
    /\ pc = "getch"
    /\ KeyBranch(k) = "enter"
    /\ ch' = k
    /\ IF view # <<>>
       THEN LET sel == Select(selected, view[idx + 1])
            IN  /\ selected' = sel
                /\ IF SelectionComplete(sel)
                   THEN /\ pc' = "return"
                        /\ UNCHANGED <<filter_text, idx, view, h, top, bottom>>
                   ELSE /\ pc' = pc
                        /\ LoopTop(filter_text, idx)
       ELSE /\ LoopTop(filter_text, idx)
            /\ UNCHANGED <<pc, selected>>
    /\ UNCHANGED <<procs, listed, cfgvars, smpvars>>

\* lines 123-125
Printable(k) ==
    /\ pc = "getch"
    /\ KeyBranch(k) = "printable"
    /\ Len(filter_text) < MaxFilterLen
    /\ ch' = k
    /\ LoopTop(Append(filter_text, k), 0)
    /\ UNCHANGED <<pc, procs, selected, listed, cfgvars, smpvars>>

\* no branch of the chain: the loop iterates
IgnoredResetsCursor(k) ==
    /\ pc = "getch"
    /\ KeyBranch(k) = "ignored"
    /\ ch' = k
    /\ LoopTop(filter_text, 0)
    /\ UNCHANGED <<pc, procs, selected, listed, cfgvars, smpvars>>

Ignored(k) ==
    /\ pc = "getch"
    /\ KeyBranch(k) = "ignored"
    /\ ch' = k
    /\ LoopTop(filter_text, idx)
    /\ UNCHANGED <<pc, procs, selected, listed, cfgvars, smpvars>>

\* line 122 and line 129: the frame of process_selector ends, main keeps
\* the returned list
Return ==
    /\ pc = "return"
    /\ pc' = "labels"
    /\ procs' = <<>>
    /\ filter_text' = <<>>
    /\ idx' = 0
    /\ view' = <<>>
    /\ ch' = NoKey
    /\ h' = 0
    /\ top' = 0
    /\ bottom' = 0
    /\ UNCHANGED <<selected, listed, cfgvars, smpvars>>


----------------------------------------------------------------------------
(* float() and int() on the prompt and probe texts *)

IsDigit(c) == c >= 48 /\ c <= 57

\* str.strip() on blanks
RECURSIVE StripLeft(_)
StripLeft(s) == IF s # <<>> /\ Head(s) = 32 THEN StripLeft(Tail(s)) ELSE s

RECURSIVE StripRight(_)
StripRight(s) ==
    IF s # <<>> /\ s[Len(s)] = 32 THEN StripRight(SubSeq(s, 1, Len(s) - 1)) ELSE s

Strip(s) == StripRight(StripLeft(s))

\* the value of a string of digits
RECURSIVE DigitsValue(_)
DigitsValue(s) ==
    IF s = <<>> THEN 0
    ELSE 10 * DigitsValue(SubSeq(s, 1, Len(s) - 1)) + (s[Len(s)] - 48)

RECURSIVE Pow10(_)
Pow10(k) == IF k = 0 THEN 1 ELSE 10 * Pow10(k - 1)

HasSign(s) == s # <<>> /\ Head(s) \in {43, 45}
Unsigned(s) == IF HasSign(s) THEN Tail(s) ELSE s
SignOf(s) == IF s # <<>> /\ Head(s) = 45 THEN -1 ELSE 1

Failed == [ok |-> FALSE, v |-> 0]

\* int(s): an optional sign and one or more digits, else ValueError
ParseInt(s) ==
    LET u == Unsigned(s)
    IN  IF u # <<>> /\ \A i \in 1..Len(u) : IsDigit(u[i])
        THEN [ok |-> TRUE, v |-> SignOf(s) * DigitsValue(u)]
        ELSE Failed

\* float(s) on texts of signs, digits and points: an optional sign, digits
\* with at most one point and at least one digit, else ValueError
ParseFloat(s) ==
    LET u == Unsigned(s)
        dots == {i \in 1..Len(u) : u[i] = 46}
        digs == SelectSeq(u, IsDigit)
    IN  IF /\ digs # <<>>
           /\ \A i \in 1..Len(u) : IsDigit(u[i]) \/ u[i] = 46
           /\ Cardinality(dots) <= 1
        THEN LET frac == IF dots = {} THEN 0 ELSE Len(u) - (CHOOSE i \in dots : TRUE)
             IN  [ok |-> TRUE, v |-> <<SignOf(s) * DigitsValue(digs), Pow10(frac)>>]
        ELSE Failed

----------------------------------------------------------------------------
(* label_wrapper and the set-up of main *)

pid1 == selected[1][1]
pid2 == selected[2][1]

\* lines 133-134: f"{comm} ({pid})"
DefaultLabel(p) == p[2] \o <<32, 40>> \o Str(p[1]) \o <<41>>

\* lines 61-63
prompt_label(typed, default) == IF Strip(typed) # <<>> THEN Strip(typed) ELSE default

\* lines 139 and 141: `.strip() or default`
OrDefault(typed, default) == IF Strip(typed) # <<>> THEN Strip(typed) ELSE default

IntervalDefault == <<49, 46, 48>>    \* "1.0"
WindowDefault == <<49, 50, 48>>      \* "120"

\* what the operator types at a label prompt
LabelInputs == { <<>>, <<76>> }

\* what the operator types at the interval and window prompts:
\* "", " ", "2", "0", "-1", "0.5", "x"
ConfigInputs ==
    { <<>>, <<32>>, <<50>>, <<48>>, <<45, 49>>, <<48, 46, 53>>, <<120>> }

\* lines 131-145
LabelWrapper ==
    /\ pc = "labels"
    /\ \E l1 \in LabelInputs, l2 \in LabelInputs,
          i_s \in ConfigInputs, w_s \in ConfigInputs :
         LET iv == ParseFloat(OrDefault(i_s, IntervalDefault))
             wn == ParseInt(OrDefault(w_s, WindowDefault))
         IN  /\ interval_s' = OrDefault(i_s, IntervalDefault)
             /\ window_s' = OrDefault(w_s, WindowDefault)
             /\ IF iv.ok /\ wn.ok
                THEN /\ name1' = prompt_label(l1, DefaultLabel(selected[1]))
                     /\ name2' = prompt_label(l2, DefaultLabel(selected[2]))
                     /\ interval' = iv.v
                     /\ window' = wn.v
                     /\ pc' = "setup"
                ELSE /\ pc' = "crashed"
                     /\ UNCHANGED <<name1, name2, interval, window>>
    /\ UNCHANGED <<selvars, smpvars>>

\* lines 147-172: deque(maxlen=window) raises ValueError when window < 0
Setup ==
    /\ pc = "setup"
    /\ IF window < 0
       THEN /\ pc' = "crashed"
            /\ UNCHANGED <<start, t, cpu1, cpu2, mem1, mem2>>
       ELSE /\ pc' = "loop"
            /\ start' = clock
            /\ t' = <<>>
            /\ cpu1' = <<>>
            /\ cpu2' = <<>>
            /\ mem1' = <<>>
            /\ mem2' = <<>>
    /\ UNCHANGED <<selvars, cfgvars, clock, now, m1, m2, ticks, hnow, hps1, hps2>>

----------------------------------------------------------------------------
(* get_metrics and the sampling loop *)

\* What one run of `ps -p pid -o %cpu=,rss=` gives: an exception of
\* check_output, or the stripped output split into its parts.
PsRaised == [raised |-> TRUE, toks |-> <<>>]
PsPrinted(toks) == [raised |-> FALSE, toks |-> toks]

PsNothing == PsPrinted(<<>>)                                   \* no output
PsOnePart == PsPrinted(<<<<53, 46, 48>>>>)                     \* "5.0"
PsIdle == PsPrinted(<<<<48, 46, 48>>, <<48>>>>)                \* "0.0 0"
PsBusy == PsPrinted(<<<<53, 46, 48>>, <<50, 48, 52, 56>>>>)    \* "5.0 2048"

ProbeOutputs == { PsRaised, PsNothing, PsOnePart, PsIdle, PsBusy }

\* What the process was doing when `ps` gave that: nothing to report (the
\* process is gone or cannot be read), or its CPU percentage and its
\* resident memory in megabytes.
Unavailable == <<>>

Reported(out) ==
    IF out = PsIdle THEN <<<<0, 1>>, <<0, 1>>>>          \* 0 %, 0 MB
    ELSE IF out = PsBusy THEN <<<<5, 1>>, <<2, 1>>>>     \* 5 %, 2 MB
    ELSE Unavailable

\* lines 36-53
get_metrics(out) ==
    IF out.raised THEN None
    ELSE IF out.toks = <<>> THEN None
    ELSE IF Len(out.toks) # 2 THEN None
    ELSE LET cpu == ParseFloat(out.toks[1])
             rss_kb == ParseInt(out.toks[2])
         IN  IF cpu.ok /\ rss_kb.ok THEN <<cpu.v, <<rss_kb.v, KbPerMb>>>> ELSE None

\* lines 181-182: `m if m else (math.nan, math.nan)`
OrNaNZeroIsMissing(m) == IF m # None /\ m[1][1] # 0 THEN m ELSE <<NaN, NaN>>

OrNaN(m) == IF m # None THEN m ELSE <<NaN, NaN>>

\* deque.append on a deque of maxlen n
DequeAppendNoEvict(d, x, n) == IF Len(d) < n THEN Append(d, x) ELSE d

DequeAppend(d, x, n) ==
    LET a == Append(d, x) IN IF Len(a) > n THEN Tail(a) ELSE a

LoopPcs ==
    { "loop", "probe1", "probe2", "app_t", "app_cpu1", "app_cpu2", "app_mem1",
      "app_mem2", "draw", "sleep", "hung1", "hung2" }

\* line 176
TickNow ==
    /\ pc = "loop"
    /\ ticks < MaxTicks
    /\ now' = <<clock - start, interval[2]>>
    /\ ticks' = ticks + 1
    /\ hnow' = Append(hnow, now')
    /\ pc' = "probe1"
    /\ UNCHANGED <<selvars, cfgvars, start, clock, m1, m2, t, cpu1, cpu2, mem1, mem2, hps1, hps2>>

\* line 178
Probe1 ==
    /\ pc = "probe1"
    /\ \E out \in ProbeOutputs :
         /\ m1' = get_metrics(out)
         /\ hps1' = Append(hps1, Reported(out))
    /\ pc' = "probe2"
    /\ UNCHANGED <<selvars, cfgvars, start, clock, now, m2, t, cpu1, cpu2, mem1, mem2, ticks, hnow, hps2>>

\* line 41: check_output has no timeout, the child may never exit
Probe1Hangs ==
    /\ pc = "probe1"
    /\ pc' = "hung1"
    /\ UNCHANGED <<selvars, cfgvars, smpvars>>

\* line 179
Probe2SkippedWhenProbe1Failed ==
    /\ pc = "probe2"
    /\ \E out \in ProbeOutputs :
         /\ m2' = IF m1 = None THEN None ELSE get_metrics(out)
         /\ hps2' = Append(hps2, Reported(out))
    /\ pc' = "app_t"
    /\ UNCHANGED <<selvars, cfgvars, start, clock, now, m1, t, cpu1, cpu2, mem1, mem2, ticks, hnow, hps1>>

Probe2 ==
    /\ pc = "probe2"
    /\ \E out \in ProbeOutputs :
         /\ m2' = get_metrics(out)
         /\ hps2' = Append(hps2, Reported(out))
    /\ pc' = "app_t"
    /\ UNCHANGED <<selvars, cfgvars, start, clock, now, m1, t, cpu1, cpu2, mem1, mem2, ticks, hnow, hps1>>

Probe2Hangs ==
    /\ pc = "probe2"
    /\ pc' = "hung2"
    /\ UNCHANGED <<selvars, cfgvars, smpvars>>

\* line 184
AppendT ==
    /\ pc = "app_t"
    /\ t' = DequeAppend(t, now, window)
    /\ pc' = "app_cpu1"
    /\ UNCHANGED <<selvars, cfgvars, start, clock, now, m1, m2, cpu1, cpu2, mem1, mem2, ticks, hnow, hps1, hps2>>

\* line 185
AppendCpu1SkipsMissing ==
    /\ pc = "app_cpu1"
    /\ cpu1' = IF m1 = None THEN cpu1 ELSE DequeAppend(cpu1, OrNaN(m1)[1], window)
    /\ pc' = "app_cpu2"
    /\ UNCHANGED <<selvars, cfgvars, start, clock, now, m1, m2, t, cpu2, mem1, mem2, ticks, hnow, hps1, hps2>>

AppendCpu1 ==
    /\ pc = "app_cpu1"
    /\ cpu1' = DequeAppend(cpu1, OrNaN(m1)[1], window)
    /\ pc' = "app_cpu2"
    /\ UNCHANGED <<selvars, cfgvars, start, clock, now, m1, m2, t, cpu2, mem1, mem2, ticks, hnow, hps1, hps2>>

\* line 186
AppendCpu2 ==
    /\ pc = "app_cpu2"
    /\ cpu2' = DequeAppend(cpu2, OrNaN(m2)[1], window)
    /\ pc' = "app_mem1"
    /\ UNCHANGED <<selvars, cfgvars, start, clock, now, m1, m2, t, cpu1, mem1, mem2, ticks, hnow, hps1, hps2>>

\* line 187
AppendMem1 ==
    /\ pc = "app_mem1"
    /\ mem1' = DequeAppend(mem1, OrNaN(m1)[2], window)
    /\ pc' = "app_mem2"
    /\ UNCHANGED <<selvars, cfgvars, start, clock, now, m1, m2, t, cpu1, cpu2, mem2, ticks, hnow, hps1, hps2>>

\* line 188
AppendMem2 ==
    /\ pc = "app_mem2"
    /\ mem2' = DequeAppend(mem2, OrNaN(m2)[2], window)
    /\ pc' = "draw"
    /\ UNCHANGED <<selvars, cfgvars, start, clock, now, m1, m2, t, cpu1, cpu2, mem1, ticks, hnow, hps1, hps2>>

\* lines 190-204: the chart is redrawn from the deques, which do not change
Redraw ==
    /\ pc = "draw"
    /\ pc' = "sleep"
    /\ UNCHANGED <<selvars, cfgvars, smpvars>>

\* line 206: time.sleep raises ValueError on a negative length; else the
\* clock, counted in units of 1/interval[2] seconds, advances by the interval
Sleep ==
    /\ pc = "sleep"
    /\ IF interval[1] < 0
       THEN pc' = "crashed" /\ clock' = clock
       ELSE pc' = "loop" /\ clock' = clock + interval[1]
    /\ UNCHANGED <<selvars, cfgvars, start, now, m1, m2, t, cpu1, cpu2, mem1, mem2, ticks, hnow, hps1, hps2>>

\* lines 208-209: Ctrl+C anywhere in the loop; get_metrics catches Exception,
\* which KeyboardInterrupt is not
Interrupt ==
    /\ pc \in LoopPcs
    /\ pc' = "stopped"
    /\ UNCHANGED <<selvars, cfgvars, smpvars>>

\* the program's own steps of the loop (all but the operator's interrupt)
LoopStep ==
    \/ TickNow
    \/ Probe1
    \/ Probe2
    \/ AppendT
    \/ AppendCpu1
    \/ AppendCpu2
    \/ AppendMem1
    \/ AppendMem2
    \/ Redraw
    \/ Sleep

----------------------------------------------------------------------------

Init ==
    /\ pc = "start"
    /\ procs = <<>>
    /\ filter_text = <<>>
    /\ idx = 0
    /\ view = <<>>
    /\ selected = <<>>
    /\ ch = NoKey
    /\ h = 0
    /\ top = 0
    /\ bottom = 0
    /\ listed = "none"
    /\ name1 = <<>>
    /\ name2 = <<>>
    /\ interval_s = <<>>
    /\ window_s = <<>>
    /\ interval = NaN
    /\ window = 0
    /\ start = 0
    /\ clock = 0
    /\ now = 0
    /\ m1 = None
    /\ m2 = None
    /\ t = <<>>
    /\ cpu1 = <<>>
    /\ cpu2 = <<>>
    /\ mem1 = <<>>
    /\ mem2 = <<>>
    /\ ticks = 0
    /\ hnow = <<>>
    /\ hps1 = <<>>
    /\ hps2 = <<>>

Next ==
    \/ ListProcesses
    \/ ListProcessesFails
    \/ \E k \in Keys : Quit(k)
    \/ \E k \in Keys : Up(k)
    \/ \E k \in Keys : Down(k)
    \/ \E k \in Keys : Backspace(k)
    \/ \E k \in Keys : Enter(k)
    \/ \E k \in Keys : Printable(k)
    \/ \E k \in Keys : Ignored(k)
    \/ Return
    \/ LabelWrapper
    \/ Setup

Spec == Init /\ [][Next]_vars

\* The sampling loop on its own, from the states Setup leaves: processes 30
\* and 20 selected, default labels, an interval and a window given by the
\* answers in I and W.
Proc20 == <<20, <<66, 98>>, <<98, 98, 32, 88>>>>
Proc30 == <<30, <<99, 99, 99>>, <<99, 99, 99, 32, 121>>>>

SamplingStart(I, W) ==
    /\ pc = "loop"
    /\ procs = <<>>
    /\ filter_text = <<>>
    /\ idx = 0
    /\ view = <<>>
    /\ selected = <<Proc30, Proc20>>
    /\ ch = NoKey
    /\ h = 0
    /\ top = 0
    /\ bottom = 0
    /\ listed = "ok"
    /\ name1 = DefaultLabel(Proc30)
    /\ name2 = DefaultLabel(Proc20)
    /\ interval_s \in I
    /\ window_s \in W
    /\ interval = ParseFloat(interval_s).v
    /\ window = ParseInt(window_s).v
    /\ start = 0
    /\ clock = 0
    /\ now = 0
    /\ m1 = None
    /\ m2 = None
    /\ t = <<>>
    /\ cpu1 = <<>>
    /\ cpu2 = <<>>
    /\ mem1 = <<>>
    /\ mem2 = <<>>
    /\ ticks = 0
    /\ hnow = <<>>
    /\ hps1 = <<>>
    /\ hps2 = <<>>

\* the default interval, a window of 0..MaxWindow samples
SamplingInit == SamplingStart({IntervalDefault}, {Str(n) : n \in 0..MaxWindow})

SamplingNext ==
    \/ LoopStep
    \/ Probe1Hangs
    \/ Probe2Hangs
    \/ Interrupt

SamplingSpec == SamplingInit /\ [][SamplingNext]_vars

\* The sampling loop from the states Setup leaves when the interval prompt
\* was left empty or answered "-1", with a window of one sample
AnyIntervalInit == SamplingStart({IntervalDefault, <<45, 49>>}, {<<49>>})

AnyIntervalSpec == AnyIntervalInit /\ [][SamplingNext]_vars

----------------------------------------------------------------------------
(* Properties of process_selector, checked under Spec *)

Range(s) == {s[i] : i \in 1..Len(s)}

\* the position of an entry in a list without repetitions
IndexIn(s, x) == CHOOSE i \in 1..Len(s) : s[i] = x

\* the positions where the selector's locals are alive
SelectorPcs == {"getch", "return", "exited"}

\* F occurs in s when the case of letters is disregarded
ContainsIgnoringCase(F, s) ==
    \E off \in 0..(Len(s) - Len(F)) :
        \A j \in 1..Len(F) : Lower(s[off + j]) = Lower(F[j])

\* the decimal numeral of n, for 1 <= n < 1000
DecimalOf(n) ==
    LET k == CHOOSE d \in 1..3 : Pow10(d - 1) <= n /\ n < Pow10(d)
    IN  [i \in 1..k |-> 48 + ((n \div Pow10(k - i)) % 10)]

MatchesSpec(F, p) ==
    \/ ContainsIgnoringCase(F, p[2])
    \/ ContainsIgnoringCase(F, p[3])
    \/ ContainsIgnoringCase(F, DecimalOf(p[1]))

\* C1: the filtered view of every iteration holds exactly the candidates
\* whose short name, full command or decimal identifier contains the filter
\* string as a case-insensitive substring, each once, in the candidates'
\* relative order.
C1_FilteredViewExact ==
    pc \in SelectorPcs =>
        /\ \A p \in Range(procs) : p \in Range(view) <=> MatchesSpec(filter_text, p)
        /\ Range(view) \subseteq Range(procs)
        /\ \A i \in 1..Len(view) : \A j \in 1..Len(view) :
               i < j => IndexIn(procs, view[i]) < IndexIn(procs, view[j])

\* a filter typed in upper case has matched a candidate and left others out
C1_Witness ==
    /\ pc = "getch"
    /\ Len(procs) = 3
    /\ filter_text = <<66>>
    /\ Len(view) = 1
    /\ view[1][1] = 20

\* C2: after every key event the cursor lies in [0, max(0, len(view) - 1)]
\* of the current filtered view, and is 0 when that view is empty.
C2_CursorInRange ==
    pc \in SelectorPcs =>
        /\ view = FilterView(procs, filter_text)
        /\ 0 <= idx
        /\ idx <= Max(0, Len(view) - 1)
        /\ (view = <<>> => idx = 0)

\* KEY_DOWN pressed on an empty view of a non-empty candidate list: the
\* cursor, moved to 1 by the key, is back at 0
C2_Witness ==
    /\ pc = "getch"
    /\ ch = KEY_DOWN
    /\ view = <<>>
    /\ procs # <<>>
    /\ idx = 0

NoRepetition(s) == \A i \in 1..Len(s) : \A j \in 1..Len(s) : s[i] = s[j] => i = j

\* a step of the selector that handles a key of the given branch
KeyStep(branch) == pc = "getch" /\ KeyBranch(ch') = branch

\* C3: the selection never holds an entry twice, and enter on an entry that
\* is already selected changes neither the selection nor the position of
\* control (the selector keeps reading keys).
C3_NoDuplicateSelection ==
    [][ /\ NoRepetition(selected')
        /\ ( /\ KeyStep("enter")
             /\ view # <<>>
             /\ view[idx + 1] \in Range(selected) )
           => (selected' = selected /\ pc' = "getch") ]_vars

\* enter was the last key, the entry under the cursor is the one selected,
\* and the selector is still reading keys
C3_Witness ==
    /\ pc = "getch"
    /\ KeyBranch(ch) = "enter"
    /\ Len(selected) = 1
    /\ view # <<>>
    /\ view[idx + 1] = selected[1]
    /\ Len(view) >= 2

\* C4: while the selector runs the selection has 0 or 1 entries; enter on
\* an entry not yet selected appends it; the selector returns at the very
\* enter that makes the size 2, with two distinct entries in the order they
\* were chosen, and main receives that list unchanged.
C4_ReturnsTwoInOrder ==
    [][ /\ (pc' \in {"start", "getch", "exited"} => Len(selected') <= 1)
        /\ Len(selected') <= 2
        /\ (pc' \in {"return", "labels", "setup", "loop"} =>
                Len(selected') = 2 /\ selected'[1] # selected'[2])
        /\ ( /\ KeyStep("enter")
             /\ view # <<>>
             /\ view[idx + 1] \notin Range(selected) )
           => /\ selected' = Append(selected, view[idx + 1])
              /\ (pc' = "return" <=> Len(selected) = 1)
        /\ (pc' = "return" => KeyStep("enter"))
        /\ (pc \in {"return", "labels", "setup"} => selected' = selected)
      ]_vars

\* the scenario of the specification: 30 chosen under the filter "c", the
\* filter cleared, the cursor moved to row 1, and 20 chosen there
C4_Witness ==
    /\ pc = "return"
    /\ Len(procs) = 3
    /\ filter_text = <<>>
    /\ idx = 1
    /\ selected[1][1] = 30
    /\ selected[2][1] = 20

\* C8 as stated: every key code 32..126 is appended to the filter string
\* and resets the cursor to 0.
C8_EveryPrintableAppends ==
    [][ \A k \in PrintableMin..PrintableMax :
          (pc = "getch" /\ ch' = k) =>
              (filter_text' = Append(filter_text, k) /\ idx' = 0) ]_vars

\* C8 amended: every key code 32..126 other than q (113) and Q (81) takes
\* the printable branch, is appended to the filter string and resets the
\* cursor to 0.
C8_PrintableExceptQuitAppends ==
    [][ \A k \in (PrintableMin..PrintableMax) \ {KEY_q, KEY_Q} :
          /\ KeyBranch(k) = "printable"
          /\ (pc = "getch" /\ ch' = k) =>
                 (filter_text' = Append(filter_text, k) /\ idx' = 0 /\ pc' = "getch")
      ]_vars

\* a blank typed after a letter, with the cursor back at row 0
C8_Witness ==
    /\ pc = "getch"
    /\ ch = PrintableMin
    /\ filter_text = <<99, PrintableMin>>
    /\ Len(view) = 1
    /\ idx = 0

----------------------------------------------------------------------------
(* Properties of label_wrapper, checked under Spec *)

\* C9: a text at the interval or window prompt that is not a number is
\* replaced by the default (1.0 seconds, 120 samples) and label_wrapper
\* goes on to the set-up of the sampling loop.
C9_UnparseableFallsBackToDefault ==
    [][ pc = "labels" /\ pc' # "labels" =>
          /\ pc' = "setup"
          /\ (~ParseFloat(interval_s').ok => interval' = ParseFloat(IntervalDefault).v)
          /\ (~ParseInt(window_s').ok => window' = ParseInt(WindowDefault).v)
      ]_vars

----------------------------------------------------------------------------
(* Properties of the sampling loop, checked under SamplingSpec *)

IsNaN(x) == x[2] = 0

\* two floats that are numbers and equal
FloatEq(a, b) == a[2] # 0 /\ b[2] # 0 /\ a[1] * b[2] = b[1] * a[2]

\* the deque entry x presents field k of the report r: the measured value,
\* or the missing marker when there was nothing to report
Shows(x, r, k) == IF r = Unavailable THEN IsNaN(x) ELSE FloatEq(x, r[k])

\* the last n elements of s, or all of s when it has fewer
LastN(s, n) == SubSeq(s, Len(s) - Min(n, Len(s)) + 1, Len(s))

\* the number of deques, in the order of lines 184-188, that have received
\* the sample of the tick whose probes returned last
AppendedOfTick ==
    IF pc = "app_t" THEN 0
    ELSE IF pc = "app_cpu1" THEN 1
    ELSE IF pc = "app_cpu2" THEN 2
    ELSE IF pc = "app_mem1" THEN 3
    ELSE IF pc = "app_mem2" THEN 4
    ELSE 5

\* the number of ticks whose sample the j-th deque has received
Received(j) == IF j <= AppendedOfTick THEN Len(hps2) ELSE Len(hps2) - 1

\* deque d holds, in order, field k of the last `window` of the first n
\* reports of hs
HoldsLast(d, hs, k, n) ==
    LET want == LastN(SubSeq(hs, 1, n), window)
    IN  /\ Len(d) = Len(want)
        /\ \A i \in 1..Len(d) : Shows(d[i], want[i], k)

\* the positions of the loop between two ticks' appends
BetweenTicks == {"draw", "sleep", "loop", "probe1", "probe2", "hung1", "hung2"}

\* C5: no deque ever holds more than `window` entries, and each holds, in
\* chronological order, exactly the last `window` samples appended to it
\* (all of them while there are fewer): an append at capacity evicts the
\* single oldest entry.
C5_BoundedFifoWindow ==
    /\ Len(t) <= window
    /\ Len(cpu1) <= window
    /\ Len(cpu2) <= window
    /\ Len(mem1) <= window
    /\ Len(mem2) <= window
    /\ pc \in LoopPcs =>
         /\ t = LastN(SubSeq(hnow, 1, Received(1)), window)
         /\ HoldsLast(cpu1, hps1, 1, Received(2))
         /\ HoldsLast(cpu2, hps2, 1, Received(3))
         /\ HoldsLast(mem1, hps1, 2, Received(4))
         /\ HoldsLast(mem2, hps2, 2, Received(5))

\* window 2, three ticks measuring 2 MB, 0 MB, 2 MB for the first process:
\* its memory deque holds the last two
C5_Witness ==
    /\ pc = "draw"
    /\ window = 2
    /\ Len(hps1) = 3
    /\ hps1[1] # Unavailable /\ FloatEq(hps1[1][2], <<2, 1>>)
    /\ hps1[2] # Unavailable /\ FloatEq(hps1[2][2], <<0, 1>>)
    /\ hps1[3] # Unavailable /\ FloatEq(hps1[3][2], <<2, 1>>)
    /\ Len(mem1) = 2
    /\ FloatEq(mem1[1], <<0, 1>>)
    /\ FloatEq(mem1[2], <<2, 1>>)
    /\ t = <<hnow[2], hnow[3]>>

\* C6: after every completed tick the five deques have one length, the
\* smaller of the window and the number of ticks completed, and entry i of
\* each belongs to one and the same tick, whatever the probes reported.
C6_Lockstep ==
    pc \in BetweenTicks =>
        /\ Len(t) = Min(window, Len(hps2))
        /\ Len(cpu1) = Len(t)
        /\ Len(cpu2) = Len(t)
        /\ Len(mem1) = Len(t)
        /\ Len(mem2) = Len(t)
        /\ \A i \in 1..Len(t) :
             LET k == Len(hps2) - Len(t) + i
             IN  /\ t[i] = hnow[k]
                 /\ Shows(cpu1[i], hps1[k], 1)
                 /\ Shows(mem1[i], hps1[k], 2)
                 /\ Shows(cpu2[i], hps2[k], 1)
                 /\ Shows(mem2[i], hps2[k], 2)

\* three ticks completed in which the first probe never had anything to
\* report and the second always had
C6_Witness ==
    /\ pc = "loop"
    /\ window = 2
    /\ Len(hps2) = 3
    /\ \A k \in 1..3 : hps1[k] = Unavailable /\ hps2[k] # Unavailable
    /\ Len(cpu1) = 2
    /\ Len(cpu2) = 2

Last(s) == s[Len(s)]

\* the tick just appended shows nothing for process a and the measured
\* values for process b
MissingBesideMeasured(ra, cpua, mema, rb, cpub, memb) ==
    (ra = Unavailable /\ rb # Unavailable) =>
        /\ IsNaN(Last(cpua))
        /\ IsNaN(Last(mema))
        /\ FloatEq(Last(cpub), rb[1])
        /\ FloatEq(Last(memb), rb[2])

\* C7: a tick in which one probe reports unavailable and the other succeeds
\* appends a missing sample for the one and the measured values for the
\* other, stamped with that tick's time; a probe failure moves the loop on
\* to its next statement, never out of the loop.
C7_FailureIsPerProcess ==
    /\ pc # "crashed"
    /\ (pc = "probe2" => Len(hps1) = Len(hnow))
    /\ (pc = "app_t" => Len(hps2) = Len(hnow))
    /\ (pc = "draw" /\ window >= 1) =>
         LET k == Len(hps2)
         IN  /\ Last(t) = hnow[k]
             /\ MissingBesideMeasured(hps1[k], cpu1, mem1, hps2[k], cpu2, mem2)
             /\ MissingBesideMeasured(hps2[k], cpu2, mem2, hps1[k], cpu1, mem1)

\* the first probe has failed on each of three ticks and the second has
\* measured 5 % and 2 MB on the last
C7_Witness ==
    /\ pc = "draw"
    /\ window = 2
    /\ Len(hps2) = 3
    /\ \A k \in 1..3 : hps1[k] = Unavailable
    /\ hps2[3] # Unavailable
    /\ \A i \in 1..2 : IsNaN(cpu1[i]) /\ IsNaN(mem1[i])
    /\ FloatEq(cpu2[2], <<5, 1>>)
    /\ FloatEq(mem2[2], <<2, 1>>)

\* C10: a probe query that does not return does not stop the loop: the
\* loop still has a next step to take (the query is cut off and recorded as
\* missing).
C10_HungProbeDoesNotBlock ==
    pc \in {"hung1", "hung2"} => ENABLED LoopStep

----------------------------------------------------------------------------
\* The selector's other events, under Spec

\* a key event: the step that reads key code k at getch
KeyEvent(K) == pc = "getch" /\ ch' \in K

\* C11: the key q or Q, read in any state of the selector, ends the session
\* at once by SystemExit: the step returns no selection, neither a partial
\* nor a complete one, and no step follows it, so the label prompts and the
\* sampling loop are never entered.
C11_QuitTerminatesSession ==
    [][ /\ KeyEvent({KEY_q, KEY_Q}) =>
             /\ pc' = "exited"
             /\ selected' = selected
             /\ UNCHANGED <<cfgvars, smpvars>>
        /\ pc = "exited" => pc' = "exited" ]_vars

\* Q read with one process selected and a filter typed
C11_Witness ==
    /\ pc = "exited"
    /\ ch = KEY_Q
    /\ Len(selected) = 1
    /\ filter_text # <<>>

\* C12: when list_processes raises, the selector is left before any of its
\* state exists: no candidate list, view, filter or selection, no key is
\* read, nothing is returned and the program is over, short of the prompts
\* and of the sampling loop.
C12_ListerFailureIsFatal ==
    listed = "failed" =>
        /\ pc = "crashed"
        /\ procs = <<>> /\ view = <<>> /\ selected = <<>>
        /\ filter_text = <<>> /\ idx = 0 /\ ch = NoKey
        /\ h = 0 /\ top = 0 /\ bottom = 0
        /\ ~ ENABLED Next

C12_Witness == listed = "failed" /\ pc = "crashed"

\* C13: with an empty view (no candidate at all, or a filter nothing
\* matches) the keys up, down and enter change neither the selection nor
\* the filter, the cursor is and stays 0, and the selector goes on reading
\* keys.
C13_EmptyViewNoOps ==
    [][ (KeyEvent({KEY_UP, KEY_DOWN, KEY_LF, KEY_CR}) /\ view = <<>>) =>
            /\ selected' = selected
            /\ filter_text' = filter_text
            /\ idx = 0 /\ idx' = 0
            /\ view' = <<>>
            /\ pc' = "getch" ]_vars

\* enter read while one process is selected and the filter matches none of
\* the candidates
C13_Witness ==
    /\ pc = "getch"
    /\ ch = KEY_CR
    /\ procs # <<>>
    /\ filter_text # <<>>
    /\ view = <<>>
    /\ Len(selected) = 1
    /\ idx = 0

\* C15: with a non-empty view, up moves the cursor one entry towards index 0
\* and down one entry towards the last index; at index 0 up leaves it, at
\* the last index down leaves it, and it never jumps to the other end.
C15_CursorMovesByOneSaturating ==
    [][ /\ (KeyEvent({KEY_UP}) /\ view # <<>>) =>
             /\ view' = view
             /\ idx' = IF idx = 0 THEN 0 ELSE idx - 1
        /\ (KeyEvent({KEY_DOWN}) /\ view # <<>>) =>
             /\ view' = view
             /\ idx' = IF idx = Len(view) - 1 THEN idx ELSE idx + 1 ]_vars

\* down read with four entries in view, the cursor now on the last one
C15_Witness ==
    /\ pc = "getch"
    /\ ch = KEY_DOWN
    /\ Len(view) = 4
    /\ idx = 3

\* C16: each of the three backspace codes removes the last character of
\* the filter and no other, leaves an empty filter empty, sets the cursor
\* to 0 and leaves the selection alone.
C16_BackspaceDropsLast ==
    [][ KeyEvent({KEY_BACKSPACE, KEY_DEL, KEY_BS}) =>
            /\ Len(filter_text') = Max(0, Len(filter_text) - 1)
            /\ \A i \in 1..Len(filter_text') : filter_text'[i] = filter_text[i]
            /\ idx' = 0
            /\ selected' = selected
            /\ pc' = "getch" ]_vars

\* DEL read after two characters were typed: one is left, and the cursor is
\* on the first of several entries
C16_Witness ==
    /\ pc = "getch"
    /\ ch = KEY_DEL
    /\ Len(filter_text) = 1
    /\ Len(view) >= 2
    /\ Len(selected) = 1
    /\ idx = 0

IgnoredKeys == {k \in Keys : KeyBranch(k) = "ignored"}

PrintableKeys == {k \in Keys : KeyBranch(k) = "printable"}

\* C20: what each key leaves alone.  Up, down, enter and a key of no branch
\* leave the filter (and so the view); up, down, a printable character,
\* backspace and a key of no branch leave the selection; enter leaves the
\* cursor; a key of no branch leaves filter, view, cursor, selection and
\* position; no key changes the candidate list read by list_processes.
C20_EventFrames ==
    [][ /\ KeyEvent({KEY_UP, KEY_DOWN, KEY_LF, KEY_CR} \cup IgnoredKeys) =>
             filter_text' = filter_text /\ view' = view
        /\ KeyEvent({KEY_UP, KEY_DOWN, KEY_BACKSPACE, KEY_DEL, KEY_BS}
                        \cup PrintableKeys \cup IgnoredKeys) =>
             selected' = selected
        /\ KeyEvent({KEY_LF, KEY_CR}) => idx' = idx
        /\ KeyEvent(IgnoredKeys) =>
             /\ idx' = idx
             /\ pc' = pc
             /\ UNCHANGED <<cfgvars, smpvars>>
        /\ pc = "getch" => procs' = procs /\ listed' = listed ]_vars

\* ESC read with the cursor on the second entry, a filter typed and one
\* process selected
C20_Witness ==
    /\ pc = "getch"
    /\ ch = 27
    /\ idx = 1
    /\ filter_text # <<>>
    /\ Len(selected) = 1

\* C14: whenever the sampling loop runs, the interval is a positive number
\* of seconds and the window is a positive number of samples, whatever the
\* operator typed at the two prompts.
C14_PositiveIntervalAndWindow ==
    pc \in LoopPcs => (interval[1] > 0 /\ interval[2] > 0 /\ window >= 1)

\* C17: each time the list is drawn with at least one row to draw in and a
\* non-empty view, the rows drawn, [top, bottom), include the cursor's, top
\* lies in [0, max(0, len(view) - max_rows)], at most max_rows rows are
\* drawn, and top = idx - max_rows // 2 whenever that lies in that range.
C17_ViewportHoldsCursor ==
    (pc = "getch" /\ view # <<>> /\ MaxRows(h) >= 1) =>
        LET mr == MaxRows(h)
            last == Max(0, Len(view) - mr)
            centred == idx - (mr \div 2)
        IN  /\ top <= idx /\ idx < bottom
            /\ 0 <= top /\ top <= last
            /\ bottom <= Len(view)
            /\ bottom - top <= mr
            /\ (0 <= centred /\ centred <= last) => top = centred

\* three rows for four entries, the cursor on the last: the window is pulled
\* back from the centred row 2 to row 1
C17_Witness ==
    /\ pc = "getch"
    /\ Len(view) = 4
    /\ idx = 3
    /\ MaxRows(h) = 3
    /\ top = 1
    /\ bottom = 4

----------------------------------------------------------------------------
\* Missing samples and the end of the loop, under SamplingSpec

Zero == <<0, 1>>

\* entry x of a deque is the missing marker exactly when report r had
\* nothing to report, and a measured zero of field k is kept as zero
KeepsZeroApart(x, r, k) ==
    /\ IsNaN(x) <=> r = Unavailable
    /\ (r # Unavailable /\ FloatEq(r[k], Zero)) => FloatEq(x, Zero)

\* C18: a probe that measured 0 % CPU or 0 MB of memory is appended as that
\* zero, and the missing marker stands in a deque exactly where the probe
\* of that tick reported nothing.
C18_ZeroIsNotMissing ==
    pc \in BetweenTicks =>
        \A i \in 1..Len(t) :
            LET k == Len(hps2) - Len(t) + i
            IN  /\ KeepsZeroApart(cpu1[i], hps1[k], 1)
                /\ KeepsZeroApart(mem1[i], hps1[k], 2)
                /\ KeepsZeroApart(cpu2[i], hps2[k], 1)
                /\ KeepsZeroApart(mem2[i], hps2[k], 2)

\* a tick in which the first process measured 0 % and 0 MB and the second
\* could not be read
C18_Witness ==
    /\ pc = "draw"
    /\ window = 2
    /\ Len(hps2) = 2
    /\ hps1[2] # Unavailable
    /\ FloatEq(hps1[2][1], Zero) /\ FloatEq(hps1[2][2], Zero)
    /\ hps2[2] = Unavailable
    /\ FloatEq(cpu1[2], Zero) /\ FloatEq(mem1[2], Zero)
    /\ IsNaN(cpu2[2]) /\ IsNaN(mem2[2])

\* C19: the loop is left only by an operator interrupt, which is possible
\* at every point of a tick and goes straight to the stopped state, from
\* which no tick starts; an interrupt during a probe query leaves the
\* probe's result and the deques as they were, recording no sample.
C19_RunsUntilInterrupted ==
    [][ /\ (pc \in LoopPcs /\ pc' \notin LoopPcs) => pc' = "stopped"
        /\ pc \in LoopPcs => ENABLED Interrupt
        /\ pc = "stopped" => pc' = "stopped"
        /\ (pc \in {"probe1", "probe2", "hung1", "hung2"} /\ pc' = "stopped") =>
             UNCHANGED <<m1, m2, t, cpu1, cpu2, mem1, mem2, hps1, hps2>> ]_vars

====
